---- MODULE Spec2Model ----
(***************************************************************************)
(* Evaluation engine of the mince-pie strategy planning game: the scoring  *)
(* functions and badge predicates of utils/scoring.ts over the component   *)
(* data of utils/gameData.ts.                                              *)
(*                                                                         *)
(* The source computes in IEEE doubles.  The model computes the same       *)
(* expressions in exact rational arithmetic: a number is a mixed fraction  *)
(* [w, n, d] = w + n/d with 0 <= n < d and gcd(n, d) = 1, so that every    *)
(* intermediate value stays inside TLC's 32-bit integers.  Math.sqrt is    *)
(* the integer square root, which is exact on the inputs drawn below (all  *)
(* squared distances under 141^2 are perfect squares).                     *)
(***************************************************************************)
EXTENDS Integers, Sequences, FiniteSets, TLC

VARIABLES components, dependencies, subScores, score, badges, pc,
          fromPoint, toPoint, intersect, toPos, path,
          commentary, commentaryIdCounter, currentCommentary, isAnimating,
          bezosClicks, timer, cleanup, effectDeps,
          selectedComponentId, pendingDependencyFromId, showCertificate,
          lastScore, dropX, clampedX, stageKey

evalVars == <<components, dependencies, subScores, score, badges>>

routeVars == <<fromPoint, toPoint, intersect, toPos, path>>

bubbleVars ==
    <<commentary, commentaryIdCounter, currentCommentary, isAnimating,
      bezosClicks, timer, cleanup, effectDeps>>

charVars ==
    <<currentCommentary, isAnimating, bezosClicks, timer, cleanup, effectDeps>>

appVars ==
    <<selectedComponentId, pendingDependencyFromId, showCertificate, lastScore>>

dropVars == <<dropX, clampedX, stageKey>>

vars == <<evalVars, routeVars, bubbleVars, appVars, dropVars, pc>>

----------------------------------------------------------------------------
(* Exact arithmetic standing for the doubles of the source. *)

RECURSIVE GCD(_, _)
GCD(a, b) == IF b = 0 THEN a ELSE GCD(b, a % b)

LCM(a, b) == (a \div GCD(a, b)) * b

\* num / den (num >= 0, den > 0) as a normalised mixed fraction.
Q(num, den) ==
    LET r == num % den
        g == GCD(den, r)
    IN  [w |-> num \div den, n |-> r \div g, d |-> den \div g]

QInt(k) == [w |-> k, n |-> 0, d |-> 1]

\* a + b
QAdd(a, b) ==
    LET l == LCM(a.d, b.d)
        s == a.n * (l \div a.d) + b.n * (l \div b.d)
        f == Q(s, l)
    IN  [w |-> a.w + b.w + f.w, n |-> f.n, d |-> f.d]

\* a <= b
QLeq(a, b) == \/ a.w < b.w
              \/ a.w = b.w /\ a.n * b.d <= b.n * a.d

\* Math.round on a non-negative number: halves round up.
MathRound(a) == a.w + (IF 2 * a.n >= a.d THEN 1 ELSE 0)

\* Math.sqrt on a non-negative integer (floor; exact on perfect squares),
\* by Newton's iteration from above.
RECURSIVE SqrtFrom(_, _)
SqrtFrom(v, r) ==
    LET next == (r + v \div r) \div 2
    IN  IF next >= r THEN r ELSE SqrtFrom(v, next)

MathSqrt(v) == IF v = 0 THEN 0 ELSE SqrtFrom(v, v)

Min(a, b) == IF a <= b THEN a ELSE b

Max(a, b) == IF a >= b THEN a ELSE b

Abs(a) == IF a < 0 THEN -a ELSE a

Sign(a) == IF a < 0 THEN -1 ELSE IF a > 0 THEN 1 ELSE 0

(* Signed numbers with the two infinities and NaN, for the pixel geometry:   *)
(* k is "fin" (the fraction n/d in lowest terms, d > 0), "inf" (n is the     *)
(* sign) or "nan".                                                           *)
FNum(num, den) ==
    LET g == GCD(Abs(num), Abs(den))
    IN  [k |-> "fin", n |-> Sign(den) * (num \div g), d |-> Abs(den) \div g]

FInt(v) == [k |-> "fin", n |-> v, d |-> 1]

FInf(sign) == [k |-> "inf", n |-> sign, d |-> 0]

FNaN == [k |-> "nan", n |-> 0, d |-> 0]

FNeg(a) == IF a.k = "nan" THEN FNaN ELSE [a EXCEPT !.n = -a.n]

\* a + b
FAdd(a, b) ==
    IF a.k = "nan" \/ b.k = "nan" THEN FNaN
    ELSE IF a.k = "inf" /\ b.k = "inf"
         THEN (IF a.n = b.n THEN a ELSE FNaN)
    ELSE IF a.k = "inf" THEN a
    ELSE IF b.k = "inf" THEN b
    ELSE FNum(a.n * b.d + b.n * a.d, a.d * b.d)

\* a - b
FSub(a, b) == FAdd(a, FNeg(b))

\* a * b
FMul(a, b) ==
    IF a.k = "nan" \/ b.k = "nan" THEN FNaN
    ELSE IF a.k = "inf" \/ b.k = "inf"
         THEN (IF a.n = 0 \/ b.n = 0 THEN FNaN ELSE FInf(Sign(a.n) * Sign(b.n)))
    ELSE FNum(a.n * b.n, a.d * b.d)

\* a / b
FDiv(a, b) ==
    IF a.k = "nan" \/ b.k = "nan" THEN FNaN
    ELSE IF a.k = "inf"
         THEN (IF b.k = "inf" THEN FNaN
               ELSE FInf(a.n * (IF b.n < 0 THEN -1 ELSE 1)))
    ELSE IF b.k = "inf" THEN FInt(0)
    ELSE IF b.n = 0
         THEN (IF a.n = 0 THEN FNaN ELSE FInf(Sign(a.n)))
    ELSE FNum(a.n * b.d, a.d * b.n)

----------------------------------------------------------------------------
(* utils/gameData.ts *)

NULL == "null"

\* Position | null is a sequence of at most one position.
NoPosition == <<>>

At(px, py) == <<[x |-> px, y |-> py]>>

EVOLUTION_STAGES ==
    << [key |-> "genesis",   xRange |-> <<0, 25>>],
       [key |-> "custom",    xRange |-> <<25, 50>>],
       [key |-> "product",   xRange |-> <<50, 75>>],
       [key |-> "commodity", xRange |-> <<75, 100>>] >>

Component(id, evolution, classification, cx, cy) ==
    [id |-> id,
     correctEvolution |-> evolution,
     correctClassification |-> classification,
     correctPosition |-> [x |-> cx, y |-> cy],
     position |-> NoPosition,
     classification |-> NULL,
     isPlaced |-> FALSE]

INITIAL_COMPONENTS ==
    << Component("mince-pie-delivery",      "product",   "build",     65, 85),
       Component("encounter-agents",        "custom",    "repurpose", 40, 70),
       Component("ai-recipe-generator",     "genesis",   "build",     15, 55),
       Component("delivery-routing",        "product",   "buy",       60, 50),
       Component("orchestration-framework", "custom",    "build",     35, 45),
       Component("foundational-ai",         "product",   "buy",       65, 30),
       Component("cloud-compute",           "commodity", "buy",       85, 25),
       Component("network-comms",           "commodity", "buy",       90, 15),
       Component("trust-framework",         "genesis",   "build",     20, 40),
       Component("elf-dashboard",           "custom",    "build",     45, 60),
       Component("coordination-centre",     "custom",    "build",     38, 35) >>

INITIAL_BADGES ==
    << "cloud-wisdom", "innovation-star", "reindeer-efficiency",
       "strategic-mapper", "dependency-master" >>

CORRECT_DEPENDENCIES ==
    << <<"mince-pie-delivery", "elf-dashboard">>,
       <<"mince-pie-delivery", "delivery-routing">>,
       <<"elf-dashboard", "orchestration-framework">>,
       <<"delivery-routing", "cloud-compute">>,
       <<"ai-recipe-generator", "foundational-ai">>,
       <<"orchestration-framework", "coordination-centre">>,
       <<"orchestration-framework", "foundational-ai">>,
       <<"foundational-ai", "cloud-compute">>,
       <<"cloud-compute", "network-comms">>,
       <<"coordination-centre", "cloud-compute">>,
       <<"encounter-agents", "orchestration-framework">>,
       <<"trust-framework", "orchestration-framework">> >>

----------------------------------------------------------------------------
(* utils/scoring.ts *)

WEIGHTS ==
    [positionAccuracy |-> 30,
     classificationAccuracy |-> 30,
     dependencyLogic |-> 25,
     completionBonus |-> 15]

maxDistance == 141

\* The square of calculateDistance(pos1, pos2).
DistanceSquared(pos1, pos2) ==
    LET dx == pos1.x - pos2.x
        dy == pos1.y - pos2.y
    IN  dx * dx + dy * dy

calculateDistance(pos1, pos2) == MathSqrt(DistanceSquared(pos1, pos2))

RECURSIVE StageFrom(_, _)
StageFrom(x, i) ==
    IF i > Len(EVOLUTION_STAGES) THEN "commodity"
    ELSE IF x >= EVOLUTION_STAGES[i].xRange[1] /\ x < EVOLUTION_STAGES[i].xRange[2]
         THEN EVOLUTION_STAGES[i].key
         ELSE StageFrom(x, i + 1)

getEvolutionStageFromX_Closed(x) ==
    IF x <= 25 THEN "genesis"
    ELSE IF x <= 50 THEN "custom"
    ELSE IF x <= 75 THEN "product"
    ELSE "commodity"

getEvolutionStageFromX(x) == StageFrom(x, 1)

\* Mutant: the normalised distance is not clipped to 1.
ComponentScoreNum_NoClamp(c) ==
    LET distance == calculateDistance(c.position[1], c.correctPosition)
    IN  (maxDistance - distance) * (maxDistance - distance)

\* componentScore / 100 of one placed component, as the numerator over
\* maxDistance^2: (1 - min(distance / maxDistance, 1))^2.
ComponentScoreNum(c) ==
    LET distance == calculateDistance(c.position[1], c.correctPosition)
        clipped  == Min(distance, maxDistance)
    IN  (maxDistance - clipped) * (maxDistance - clipped)

RECURSIVE SumScores(_, _)
SumScores(cs, i) ==
    IF i > Len(cs) THEN 0
    ELSE (IF cs[i].isPlaced /\ cs[i].position # NoPosition
          THEN ComponentScoreNum(cs[i]) ELSE 0) + SumScores(cs, i + 1)

IsPlacedWithPosition(c) == c.isPlaced /\ c.position # NoPosition

\* Mutant: the total is averaged over all components, not the placed ones.
calculatePositionScore_OverAll(cs) ==
    LET placed == Len(SelectSeq(cs, IsPlacedWithPosition))
    IN  IF placed = 0 THEN QInt(0)
        ELSE Q(SumScores(cs, 1) * WEIGHTS.positionAccuracy,
               maxDistance * maxDistance * Len(cs))

calculatePositionScore(cs) ==
    LET placed == Len(SelectSeq(cs, IsPlacedWithPosition))
    IN  IF placed = 0 THEN QInt(0)
        ELSE Q(SumScores(cs, 1) * WEIGHTS.positionAccuracy,
               maxDistance * maxDistance * placed)

IsClassified(c) == c.classification # NULL

IsCorrectlyClassified(c) ==
    c.classification # NULL /\ c.classification = c.correctClassification

\* Mutant: the ratio is taken over all components, not the classified ones.
calculateClassificationScore_OverAll(cs) ==
    LET classified == Len(SelectSeq(cs, IsClassified))
    IN  IF classified = 0 THEN QInt(0)
        ELSE Q(Len(SelectSeq(cs, IsCorrectlyClassified)) * WEIGHTS.classificationAccuracy,
               Len(cs))

calculateClassificationScore(cs) ==
    LET classified == Len(SelectSeq(cs, IsClassified))
    IN  IF classified = 0 THEN QInt(0)
        ELSE Q(Len(SelectSeq(cs, IsCorrectlyClassified)) * WEIGHTS.classificationAccuracy,
               classified)

\* Mutant: a relationship matches a reference pair in its own direction only.
IsCorrectDependency_Directed(dep) ==
    \E i \in 1..Len(CORRECT_DEPENDENCIES) :
        /\ dep.fromComponentId = CORRECT_DEPENDENCIES[i][1]
        /\ dep.toComponentId = CORRECT_DEPENDENCIES[i][2]

IsCorrectDependency(dep) ==
    \E i \in 1..Len(CORRECT_DEPENDENCIES) :
        LET from == CORRECT_DEPENDENCIES[i][1]
            to   == CORRECT_DEPENDENCIES[i][2]
        IN  \/ dep.fromComponentId = from /\ dep.toComponentId = to
            \/ dep.fromComponentId = to /\ dep.toComponentId = from

\* Mutant: the denominator is the reference table's size, not the maximum.
calculateDependencyScore_NoMax(deps) ==
    IF Len(deps) = 0 THEN QInt(0)
    ELSE Q(Len(SelectSeq(deps, IsCorrectDependency)) * WEIGHTS.dependencyLogic,
           Len(CORRECT_DEPENDENCIES))

calculateDependencyScore(deps) ==
    IF Len(deps) = 0 THEN QInt(0)
    ELSE Q(Len(SelectSeq(deps, IsCorrectDependency)) * WEIGHTS.dependencyLogic,
           Max(Len(deps), Len(CORRECT_DEPENDENCIES)))

IsPlaced(c) == c.isPlaced

\* Mutant: the full bonus is awarded as soon as every component is placed.
calculateCompletionBonus_PlacedOnly(cs) ==
    LET allPlaced == \A i \in 1..Len(cs) : cs[i].isPlaced
    IN  IF allPlaced THEN QInt(WEIGHTS.completionBonus)
        ELSE Q((Len(SelectSeq(cs, IsPlaced)) + Len(SelectSeq(cs, IsClassified)))
                   * WEIGHTS.completionBonus,
               2 * Len(cs))

calculateCompletionBonus(cs) ==
    LET allPlaced     == \A i \in 1..Len(cs) : cs[i].isPlaced
        allClassified == \A i \in 1..Len(cs) : cs[i].classification # NULL
    IN  IF allPlaced /\ allClassified THEN QInt(WEIGHTS.completionBonus)
        ELSE Q((Len(SelectSeq(cs, IsPlaced)) + Len(SelectSeq(cs, IsClassified)))
                   * WEIGHTS.completionBonus,
               2 * Len(cs))

\* The four sub-scores before rounding.
SubScores(cs, deps) ==
    [positionScore       |-> calculatePositionScore(cs),
     classificationScore |-> calculateClassificationScore(cs),
     dependencyScore     |-> calculateDependencyScore(deps),
     completionBonus     |-> calculateCompletionBonus(cs)]

SumOf(s) ==
    QAdd(QAdd(s.positionScore, s.classificationScore),
         QAdd(s.dependencyScore, s.completionBonus))

calculateTotalScore(cs, deps) == MathRound(SumOf(SubScores(cs, deps)))

IsCloudCompute(c) == c.id = "cloud-compute"

IsGenesis(c) == c.correctEvolution = "genesis"

IsRepurpose(c) == c.correctClassification = "repurpose"

\* Mutant: a genesis component without a position is passed over.
GenesisBuild_SkipUnplaced(c) ==
    IF c.position = NoPosition THEN TRUE
    ELSE /\ getEvolutionStageFromX(c.position[1].x) = "genesis"
         /\ c.classification = "build"

GenesisBuild(c) ==
    IF c.position = NoPosition THEN FALSE
    ELSE /\ getEvolutionStageFromX(c.position[1].x) = "genesis"
         /\ c.classification = "build"

\* Mutant: the evolution stage of the position is not looked at.
CloudWisdom_AnyStage(cs) ==
    LET found == SelectSeq(cs, IsCloudCompute)
    IN  IF found = <<>> \/ found[1].position = NoPosition THEN FALSE
        ELSE found[1].classification = "buy"

\* case "cloud-wisdom"
CloudWisdom(cs) ==
    LET found == SelectSeq(cs, IsCloudCompute)
    IN  IF found = <<>> \/ found[1].position = NoPosition THEN FALSE
        ELSE /\ getEvolutionStageFromX(found[1].position[1].x) = "commodity"
             /\ found[1].classification = "buy"

\* case "innovation-star"
InnovationStar(cs) ==
    LET genesisComponents == SelectSeq(cs, IsGenesis)
    IN  \A i \in 1..Len(genesisComponents) : GenesisBuild(genesisComponents[i])

\* Mutant: without a repurpose component the badge is earned.
ReindeerEfficiency_Vacuous(cs) ==
    LET found == SelectSeq(cs, IsRepurpose)
    IN  found = <<>> \/ found[1].classification = "repurpose"

\* case "reindeer-efficiency"
ReindeerEfficiency(cs) ==
    LET found == SelectSeq(cs, IsRepurpose)
    IN  found # <<>> /\ found[1].classification = "repurpose"

\* Mutant: the badge also asks for a complete map.
StrategicMapper_Complete(cs, deps) ==
    /\ calculateTotalScore(cs, deps) >= 70
    /\ \A i \in 1..Len(cs) : cs[i].isPlaced /\ cs[i].classification # NULL

\* case "strategic-mapper"
StrategicMapper(cs, deps) == calculateTotalScore(cs, deps) >= 70

\* Mutant: more than five matching relationships are asked for.
DependencyMaster_Strict(deps) == Len(SelectSeq(deps, IsCorrectDependency)) > 5

\* case "dependency-master"
DependencyMaster(deps) == Len(SelectSeq(deps, IsCorrectDependency)) >= 5

checkBadgeEarned(badgeId, cs, deps) ==
    CASE badgeId = "cloud-wisdom"        -> CloudWisdom(cs)
      [] badgeId = "innovation-star"     -> InnovationStar(cs)
      [] badgeId = "reindeer-efficiency" -> ReindeerEfficiency(cs)
      [] badgeId = "strategic-mapper"    -> StrategicMapper(cs, deps)
      [] badgeId = "dependency-master"   -> DependencyMaster(deps)
      [] OTHER -> FALSE

----------------------------------------------------------------------------
(* The edge router of DependencyLines: where a connector from one card's     *)
(* center meets the box of the card it points to.  Centers are pixel points  *)
(* with integer coordinates; computed coordinates are signed numbers.        *)

CARD_WIDTH == 190

CARD_HEIGHT == 120

ARROWHEAD_LENGTH == 10

Point(px, py) == [x |-> px, y |-> py]

\* The angle Math.atan2(dy, dx) is kept as the direction (dx, dy) it is the
\* angle of; each comparison the code makes on it is decided on the direction.
\* Math.abs(Math.atan2(dy, dx)) < Math.atan2(h, w), for h > 0 and w > 0;
\* Math.atan2(0, 0) is 0.
AbsAngleBelow(dy, dx, h, w) ==
    \/ dy = 0 /\ dx >= 0
    \/ dx > 0 /\ Abs(dy) * w < h * dx

\* Math.abs(Math.atan2(dy, dx)) > Math.PI - Math.atan2(h, w)
AbsAngleAbove(dy, dx, h, w) == dx < 0 /\ Abs(dy) * w < h * (-dx)

\* Math.atan2(dy, dx) > 0
AnglePositive_Swapped(dy, dx) == dy < 0 \/ (dy = 0 /\ dx < 0)

AnglePositive(dy, dx) == dy > 0 \/ (dy = 0 /\ dx < 0)

\* Math.tan(Math.atan2(dy, dx)): the slope dy/dx, unbounded on a vertical
\* direction.
MathTan(dy, dx) ==
    IF dx # 0 THEN FNum(dy, dx)
    ELSE IF dy = 0 THEN FInt(0)
    ELSE FInf(Sign(dy))

\* The branch getEdgeIntersection takes, named as its comments name it.
HitEdge(dx, dy) ==
    LET halfWidth  == CARD_WIDTH \div 2
        halfHeight == CARD_HEIGHT \div 2
    IN  IF AbsAngleBelow(dy, dx, halfHeight, halfWidth) THEN "right"
        ELSE IF AbsAngleAbove(dy, dx, halfHeight, halfWidth) THEN "left"
        ELSE IF AnglePositive(dy, dx) THEN "bottom"
        ELSE "top"

\* The locals intersectX and intersectY of getEdgeIntersection.
EdgeIntersect(from, to) ==
    LET dx         == to.x - from.x
        dy         == to.y - from.y
        tan        == MathTan(dy, dx)
        halfWidth  == FInt(CARD_WIDTH \div 2)
        halfHeight == FInt(CARD_HEIGHT \div 2)
        edge       == HitEdge(dx, dy)
    IN  IF edge = "right"
        THEN Point(FSub(FInt(to.x), halfWidth),
                   FSub(FInt(to.y), FMul(halfWidth, tan)))
        ELSE IF edge = "left"
        THEN Point(FAdd(FInt(to.x), halfWidth),
                   FAdd(FInt(to.y), FMul(halfWidth, tan)))
        ELSE IF edge = "bottom"
        THEN Point(FSub(FInt(to.x), FDiv(halfHeight, tan)),
                   FSub(FInt(to.y), halfHeight))
        ELSE Point(FSub(FInt(to.x), FDiv(halfHeight, tan)),
                   FAdd(FInt(to.y), halfHeight))

\* The intersection point moved back by the unit direction times the
\* arrowhead length; 0/0 is NaN.
OffsetBack(at, dx, dy) ==
    LET lineLength == FInt(MathSqrt(dx * dx + dy * dy))
        unitDx     == FDiv(FInt(dx), lineLength)
        unitDy     == FDiv(FInt(dy), lineLength)
    IN  Point(FSub(at.x, FMul(unitDx, FInt(ARROWHEAD_LENGTH))),
              FSub(at.y, FMul(unitDy, FInt(ARROWHEAD_LENGTH))))

getEdgeIntersection(from, to) ==
    OffsetBack(EdgeIntersect(from, to), to.x - from.x, to.y - from.y)

\* The path string "M from Q mid to", as its three points.
createPath(from, to) ==
    [M |-> from,
     Q |-> Point(FDiv(FAdd(from.x, to.x), FInt(2)),
                 FDiv(FAdd(from.y, to.y), FInt(2))),
     T |-> to]

----------------------------------------------------------------------------
(* Rudolph's commentary and the Characters component that displays it.       *)

\* createCommentary(text, type) with the id generateCommentaryId() gives
\* when the counter is at id; texts are named, not spelled out.
createCommentary(id, text, type) == [id |-> id, text |-> text, type |-> type]

getWelcomeCommentary(id) == createCommentary(id, "welcome", "hint")

getJeffBezosEasterEgg(id) == createCommentary(id, "jeff-bezos", "easter-egg")

\* What a generator hands to createCommentary: no message (null), or one.
NoMessage == <<>>

Message(text, type) == << [text |-> text, type |-> type] >>

getPlacementCommentary(component) ==
    IF component.id = "cloud-compute"
    THEN Message("cloud-shelf", "easter-egg")
    ELSE IF component.id = "ai-recipe-generator"
    THEN Message("novel-recipe-generator", "hint")
    ELSE IF component.id = "foundational-ai"
    THEN Message("productized-llms", "hint")
    ELSE IF component.id = "trust-framework"
    THEN Message("new-territory", "hint")
    ELSE NoMessage

getClassificationCommentary(component, classification) ==
    IF classification = NULL THEN NoMessage
    ELSE IF classification = component.correctClassification
    THEN Message("praise-" \o classification, "praise")
    ELSE IF component.correctClassification = "buy" /\ classification = "build"
    THEN Message("sure-you-want-to-build", "correction")
    ELSE IF component.correctClassification = "build" /\ classification = "buy"
    THEN Message("can-you-really-buy", "correction")
    ELSE NoMessage

logicalPairs ==
    << <<"mince-pie-delivery", "delivery-routing", "deliveries-need-routing">>,
       <<"ai-recipe-generator", "foundational-ai", "recipes-need-models">>,
       <<"cloud-compute", "network-comms", "cloud-needs-network">>,
       <<"orchestration-framework", "foundational-ai", "orchestration-needs-models">> >>

getDependencyCommentary(fromId, toId) ==
    LET match == SelectSeq(logicalPairs,
                     LAMBDA pair : \/ pair[1] = fromId /\ pair[2] = toId
                                   \/ pair[1] = toId /\ pair[2] = fromId)
    IN  IF match # <<>> THEN Message(match[1][3], "praise") ELSE NoMessage

getScoreMilestoneCommentary(s) ==
    IF s >= 90 THEN Message("milestone-90", "praise")
    ELSE IF s >= 75 THEN Message("milestone-75", "praise")
    ELSE IF s >= 50 THEN Message("milestone-50", "hint")
    ELSE IF s >= 25 THEN Message("milestone-25", "hint")
    ELSE NoMessage

getCompletionCommentary(s) ==
    IF s >= 80 THEN Message("completion-magnificent", "praise")
    ELSE IF s >= 60 THEN Message("completion-well-done", "praise")
    ELSE Message("completion-nice-effort", "hint")

\* The commentary list after addCommentary of each message in turn, the
\* id counter standing at counter before the first.
Appended(log, counter, messages) ==
    log \o [i \in 1..Len(messages) |->
               createCommentary(counter + i - 1, messages[i].text, messages[i].type)]

\* The timer set by the commentary effect: 0 when none is armed, else its
\* delay in milliseconds.
NoTimer == 0

timeout(latest) == IF latest.type = "praise" THEN 10000 ELSE 8000

\* useState<Commentary | null>: null, or the one commentary held.
NoCommentary == <<>>

\* The dependency array [commentary, currentCommentary] of the effect, as
\* the effect's last run saw it; none before its first run.
NoDeps == <<>>

Deps == << [commentary |-> commentary, currentCommentary |-> currentCommentary] >>

\* Nothing is being dropped.
DropIdle ==
    /\ dropX = 0
    /\ clampedX = <<>>
    /\ stageKey = NULL

\* useState initial values of App's selection, pending source, certificate
\* flag and last score.
AppIdle ==
    /\ selectedComponentId = NULL
    /\ pendingDependencyFromId = NULL
    /\ showCertificate = FALSE
    /\ lastScore = 0

\* The Characters component is not mounted.
BubbleIdle ==
    /\ commentary = <<>>
    /\ commentaryIdCounter = 0
    /\ currentCommentary = NoCommentary
    /\ isAnimating = FALSE
    /\ bezosClicks = 0
    /\ timer = NoTimer
    /\ cleanup = FALSE
    /\ effectDeps = NoDeps

----------------------------------------------------------------------------
(* The inputs the evaluator is applied to. *)

\* Collections of up to MaxSmall components, and the full game.
MaxSmall == 4

\* Declared relationships that match no reference pair, and repeats of a
\* pair already declared.
MaxWrong == 2

MaxRepeat == 1

\* Placed components sit at their correct position moved by one of these
\* vectors, of lengths 0, 5, 13, 10, 100, 140, 141.42, 200, 13 and 17; the
\* seventh and eighth are clipped to maxDistance.
Offsets ==
    << <<0, 0>>, <<3, 4>>, <<-5, 12>>, <<-10, 0>>,
       <<60, 80>>, <<84, 112>>, <<100, 100>>, <<120, 160>>,
       <<-12, 5>>, <<15, 8>> >>

Labels == {"correct", "build", "buy", "repurpose"}

WrongPairs ==
    << <<"mince-pie-delivery", "network-comms">>,
       <<"elf-dashboard", "elf-dashboard">>,
       <<"cloud-compute", "santa-sleigh">> >>

Moved(c, o) == At(c.correctPosition.x + o[1], c.correctPosition.y + o[2])

\* The first n components; the first p of them placed, component i at
\* offset number start + (i - 1) * step (cyclically); the last c of them
\* classified, with their correct classification or all with one label.
ItemInputs(n, p, c, start, step, label) ==
    [i \in 1..n |->
        LET base == INITIAL_COMPONENTS[i]
            o    == Offsets[((start - 1 + (i - 1) * step) % Len(Offsets)) + 1]
        IN  [base EXCEPT
                !.position = IF i <= p THEN Moved(base, o) ELSE NoPosition,
                !.isPlaced = (i <= p),
                !.classification =
                    IF i <= n - c THEN NULL
                    ELSE IF label = "correct" THEN base.correctClassification
                    ELSE label]]

Dependency(id, from, to) ==
    [id |-> id, fromComponentId |-> from, toComponentId |-> to]

\* k reference pairs (every second one reversed), then w pairs that match
\* nothing, then r repeats of the first reference pair, reversed.
DepInputs(k, w, r) ==
    [i \in 1..(k + w + r) |->
        IF i <= k
        THEN LET e == CORRECT_DEPENDENCIES[i]
             IN  IF i % 2 = 0 THEN Dependency(i, e[2], e[1])
                 ELSE Dependency(i, e[1], e[2])
        ELSE IF i <= k + w
        THEN LET e == WrongPairs[((i - k - 1) % Len(WrongPairs)) + 1]
             IN  Dependency(i, e[1], e[2])
        ELSE Dependency(i, CORRECT_DEPENDENCIES[1][2], CORRECT_DEPENDENCIES[1][1])]

Sizes == (0..MaxSmall) \cup {Len(INITIAL_COMPONENTS)}

ZeroScores ==
    [positionScore |-> QInt(0), classificationScore |-> QInt(0),
     dependencyScore |-> QInt(0), completionBonus |-> QInt(0)]

NoBadges == [b \in {INITIAL_BADGES[i] : i \in 1..Len(INITIAL_BADGES)} |-> FALSE]

NoPoint == Point(FInt(0), FInt(0))

NoPath == [M |-> NoPoint, Q |-> NoPoint, T |-> NoPoint]

\* No connector is being routed.
RouteIdle ==
    /\ fromPoint = Point(0, 0)
    /\ toPoint = Point(0, 0)
    /\ intersect = NoPoint
    /\ toPos = NoPoint
    /\ path = NoPath

\* Every item collection against no or all reference relationships, and
\* the uniform item collections against every relationship collection.
InitEval ==
    /\ \E n \in Sizes : \E p \in 0..n, c \in 0..n :
       \E start \in 1..Len(Offsets), step \in 0..1, label \in Labels :
       \E k \in 0..Len(CORRECT_DEPENDENCIES), w \in 0..MaxWrong, r \in 0..MaxRepeat :
          /\ \/ w = 0 /\ r = 0 /\ k \in {0, Len(CORRECT_DEPENDENCIES)}
             \/ step = 0 /\ label = "correct" /\ p \in {0, n} /\ c \in {0, n}
          /\ components = ItemInputs(n, p, c, start, step, label)
          /\ dependencies = DepInputs(k, w, r)
    /\ subScores = ZeroScores
    /\ score = 0
    /\ badges = NoBadges
    /\ RouteIdle
    /\ BubbleIdle
    /\ AppIdle
    /\ DropIdle
    /\ pc = "input"

\* score = calculateTotalScore(components, dependencies), with the four
\* locals of the call.
CalculateTotalScore ==
    /\ pc = "input"
    /\ subScores' = SubScores(components, dependencies)
    /\ score' = calculateTotalScore(components, dependencies)
    /\ pc' = "scored"
    /\ UNCHANGED <<components, dependencies, badges, routeVars, dropVars, bubbleVars, appVars>>

\* earned = checkBadgeEarned(badge.id, components, dependencies), each badge.
CheckBadgesEarned ==
    /\ pc = "scored"
    /\ badges' = [b \in DOMAIN badges |->
                     checkBadgeEarned(b, components, dependencies)]
    /\ pc' = "done"
    /\ UNCHANGED <<components, dependencies, subScores, score, routeVars, dropVars, bubbleVars,
                   appVars>>

NextEval == CalculateTotalScore \/ CheckBadgesEarned

SpecEval == InitEval /\ [][NextEval]_vars

----------------------------------------------------------------------------
(* The inputs the edge router is applied to: a target center and a source    *)
(* center at an offset of whole length from it, so that the unit direction   *)
(* is a fraction.                                                            *)

MaxScale == 2

ScaleStep == 15

\* Directions of whole length in the first quadrant, on both sides of the
\* box diagonal (60 : 95), with the two axes.
Directions ==
    { <<1, 0>>, <<0, 1>>, <<3, 4>>, <<4, 3>>, <<5, 12>>, <<12, 5>>,
      <<8, 15>>, <<15, 8>>, <<7, 24>>, <<24, 7>>, <<20, 21>>, <<21, 20>> }

\* The offsets from source to target: every direction in every quadrant at
\* every scale, and the zero offset of two cards dropped on the same spot.
Deltas ==
    { <<0, 0>> } \cup
    { <<sx * k * ScaleStep * d[1], sy * k * ScaleStep * d[2]>> :
          sx \in {-1, 1}, sy \in {-1, 1}, k \in 1..MaxScale, d \in Directions }

ToPoints == { Point(400, 300), Point(95, 60) }

NoEvaluation ==
    /\ components = <<>>
    /\ dependencies = <<>>
    /\ subScores = ZeroScores
    /\ score = 0
    /\ badges = NoBadges

InitRoute ==
    /\ NoEvaluation
    /\ BubbleIdle
    /\ AppIdle
    /\ DropIdle
    /\ toPoint \in ToPoints
    /\ \E d \in Deltas : fromPoint = Point(toPoint.x - d[1], toPoint.y - d[2])
    /\ intersect = NoPoint
    /\ toPos = NoPoint
    /\ path = NoPath
    /\ pc = "centers"

\* const toPos = getEdgeIntersection(fromPos, toCenter), with its locals
\* intersectX and intersectY.
GetEdgeIntersection ==
    /\ pc = "centers"
    /\ intersect' = EdgeIntersect(fromPoint, toPoint)
    /\ toPos' = getEdgeIntersection(fromPoint, toPoint)
    /\ pc' = "routed"
    /\ UNCHANGED <<dropVars, evalVars, bubbleVars, appVars, fromPoint, toPoint, path>>

\* const path = createPath(fromPos, toPos)
CreatePath ==
    /\ pc = "routed"
    /\ path' = createPath(Point(FInt(fromPoint.x), FInt(fromPoint.y)), toPos)
    /\ pc' = "drawn"
    /\ UNCHANGED <<dropVars, evalVars, bubbleVars, appVars, fromPoint, toPoint, intersect,
                   toPos>>

NextRoute == GetEdgeIntersection \/ CreatePath

SpecRoute == InitRoute /\ [][NextRoute]_vars

----------------------------------------------------------------------------
(* The render of one dependency by DependencyLines, over the components and  *)
(* dependencies its parent hands it: two cards, each in the sidebar or on    *)
(* one of two spots of the canvas, and a dependency between two of three     *)
(* ids, one of which names no card.  The spots lie at whole distances from   *)
(* each other.                                                               *)

canvasWidth == 1000

canvasHeight == 1000

LineIds == {"cloud-compute", "network-comms", "santa-sleigh"}

\* The card of INITIAL_COMPONENTS with the id, in the sidebar (NoPosition)
\* or dropped on pos.
Card(id, pos) ==
    LET c == INITIAL_COMPONENTS[CHOOSE i \in 1..Len(INITIAL_COMPONENTS) :
                                    INITIAL_COMPONENTS[i].id = id]
    IN  [c EXCEPT !.position = pos, !.isPlaced = pos # NoPosition]

Snapshots ==
    { << Card("cloud-compute", p), Card("network-comms", q) >> :
          p \in {NoPosition, At(20, 10), At(20, 50)},
          q \in {NoPosition, At(50, 10), At(50, 50)} }

getComponentCenter_Origin(cs, componentId) ==
    LET found == {i \in 1..Len(cs) : cs[i].id = componentId}
    IN  IF found = {} THEN <<>>
        ELSE LET component == cs[CHOOSE i \in found : \A j \in found : i <= j]
             IN  IF component.position = NoPosition THEN << Point(0, 0) >>
                 ELSE << Point((component.position[1].x * canvasWidth) \div 100,
                               (component.position[1].y * canvasHeight) \div 100) >>

\* getComponentCenter(componentId): null (<<>>) without the component or
\* its position, else the position in pixels.  The positions of Snapshots
\* give whole pixels.
getComponentCenter(cs, componentId) ==
    LET found == {i \in 1..Len(cs) : cs[i].id = componentId}
    IN  IF found = {} THEN <<>>
        ELSE LET component == cs[CHOOSE i \in found : \A j \in found : i <= j]
             IN  IF component.position = NoPosition THEN <<>>
                 ELSE << Point((component.position[1].x * canvasWidth) \div 100,
                               (component.position[1].y * canvasHeight) \div 100) >>

InitLines ==
    /\ components \in Snapshots
    /\ \E fromId \in LineIds : \E toId \in LineIds \ {fromId} :
          dependencies = << Dependency(0, fromId, toId) >>
    /\ subScores = SubScores(components, dependencies)
    /\ score = calculateTotalScore(components, dependencies)
    /\ badges = NoBadges
    /\ RouteIdle
    /\ BubbleIdle
    /\ AppIdle
    /\ DropIdle
    /\ pc = "render"

\* The callback of dependencies.map up to the null test: fromPos and
\* toCenter, and null returned when one of them is missing.
GetComponentCenters ==
    /\ pc = "render"
    /\ LET fromPos  == getComponentCenter(components, dependencies[1].fromComponentId)
           toCenter == getComponentCenter(components, dependencies[1].toComponentId)
       IN  IF fromPos = <<>> \/ toCenter = <<>>
           THEN /\ pc' = "skipped"
                /\ UNCHANGED <<fromPoint, toPoint>>
           ELSE /\ fromPoint' = fromPos[1]
                /\ toPoint' = toCenter[1]
                /\ pc' = "centers"
    /\ UNCHANGED <<dropVars, evalVars, bubbleVars, appVars, intersect, toPos, path>>

NextLines ==
    \/ GetComponentCenters
    \/ GetEdgeIntersection
    \/ CreatePath

SpecLines == InitLines /\ [][NextLines]_vars

----------------------------------------------------------------------------
(* The Characters component under the commentary its parent hands it.  React *)
(* renders and runs the effect as soon as a dependency of the effect has     *)
(* changed; time passes, and a timer comes due, only between such runs.      *)

MaxCommentary == 3

\* What the parent's handlers add: a (text, type) of each type.
ParentCommentary ==
    { <<"classification-praise", "praise">>, <<"placement-hint", "hint">>,
      <<"classification-correction", "correction">> }

InitBubble ==
    /\ NoEvaluation
    /\ RouteIdle
    /\ AppIdle
    /\ DropIdle
    /\ commentary = << getWelcomeCommentary(0) >>
    /\ commentaryIdCounter = 1
    /\ currentCommentary = NoCommentary
    /\ isAnimating = FALSE
    /\ bezosClicks = 0
    /\ timer = NoTimer
    /\ cleanup = FALSE
    /\ effectDeps = NoDeps
    /\ pc = "mounted"

\* addCommentary(newCommentary) of the parent: the prop grows by one entry.
AddCommentary ==
    /\ Len(commentary) < MaxCommentary
    /\ \E c \in ParentCommentary :
          commentary' = Append(commentary,
                               createCommentary(commentaryIdCounter, c[1], c[2]))
    /\ commentaryIdCounter' = commentaryIdCounter + 1
    /\ UNCHANGED <<evalVars, routeVars, dropVars, appVars, pc, currentCommentary, isAnimating,
                   bezosClicks, timer, cleanup, effectDeps>>

\* The commentary effect, run after a render in which a dependency changed:
\* first the cleanup its previous run returned, then its body.
CommentaryEffect ==
    /\ effectDeps # Deps
    /\ effectDeps' = Deps
    /\ LET cleared == IF cleanup THEN NoTimer ELSE timer
           latest  == commentary[Len(commentary)]
       IN  IF Len(commentary) = 0
           THEN /\ timer' = cleared
                /\ cleanup' = FALSE
                /\ UNCHANGED <<currentCommentary, isAnimating>>
           ELSE IF currentCommentary = NoCommentary \/ latest.id # currentCommentary[1].id
           THEN /\ currentCommentary' = << latest >>
                /\ isAnimating' = TRUE
                /\ timer' = timeout(latest)
                /\ cleanup' = TRUE
           ELSE /\ timer' = cleared
                /\ cleanup' = FALSE
                /\ UNCHANGED <<currentCommentary, isAnimating>>
    /\ UNCHANGED <<evalVars, routeVars, dropVars, appVars, pc, commentary, commentaryIdCounter,
                   bezosClicks>>

\* The delay of the armed timer passes with nothing else happening: its
\* callback runs setIsAnimating(false).  Without an armed timer nothing runs.
TimeoutElapses ==
    /\ effectDeps = Deps
    /\ IF timer # NoTimer
       THEN isAnimating' = FALSE /\ timer' = NoTimer
       ELSE UNCHANGED <<isAnimating, timer>>
    /\ UNCHANGED <<evalVars, routeVars, dropVars, appVars, pc, commentary, commentaryIdCounter,
                   currentCommentary, bezosClicks, cleanup, effectDeps>>

\* The close button of the bubble, rendered while the bubble is displayed.
CloseBubble ==
    /\ currentCommentary # NoCommentary
    /\ isAnimating
    /\ isAnimating' = FALSE
    /\ UNCHANGED <<evalVars, routeVars, dropVars, appVars, pc, commentary, commentaryIdCounter,
                   currentCommentary, bezosClicks, timer, cleanup, effectDeps>>

\* handleRudolphClick: the third click calls onJeffBezosEasterEgg, which
\* adds the easter egg to the commentary.
HandleRudolphClick ==
    LET newClicks == bezosClicks + 1
    IN  /\ newClicks = 3 => Len(commentary) < MaxCommentary
        /\ IF newClicks = 3
           THEN /\ commentary' = Append(commentary,
                                        getJeffBezosEasterEgg(commentaryIdCounter))
                /\ commentaryIdCounter' = commentaryIdCounter + 1
                /\ bezosClicks' = 0
           ELSE /\ bezosClicks' = newClicks
                /\ UNCHANGED <<commentary, commentaryIdCounter>>
        /\ UNCHANGED <<evalVars, routeVars, dropVars, appVars, pc, currentCommentary, isAnimating,
                       timer, cleanup, effectDeps>>

NextBubble ==
    \/ AddCommentary
    \/ CommentaryEffect
    \/ TimeoutElapses
    \/ CloseBubble
    \/ HandleRudolphClick

SpecBubble == InitBubble /\ [][NextBubble]_vars

----------------------------------------------------------------------------
(* The App component: the game state and its handlers.  Every action is a    *)
(* handler with the render and the milestone effect that follow it.          *)

MaxCommentaryIds == 8

MaxEasterEggs == 1

\* Date.now() at a dependency's creation.  The two cards the user clicks
\* here form one pair, so the list holds one dependency at most and one
\* reading is enough.
Timestamps == {0}

\* The cards the user clicks.
ClickIds == {"cloud-compute", "network-comms"}

\* The cards the user moves once they are on the canvas, and where to.
MoveIds == {"cloud-compute"}

MovePositions == {At(50, 50)}

\* The classification buttons the user presses, by card.
ClassifyInputs ==
    { <<"cloud-compute", "buy">> }

\* components.find((c) => c.id === componentId), as an index; 0 when absent.
FindComponent(cs, componentId) ==
    LET found == {i \in 1..Len(cs) : cs[i].id = componentId}
    IN  IF found = {} THEN 0 ELSE CHOOSE i \in found : \A j \in found : i <= j

\* Where a sidebar card is dropped: the first card 14 units from its
\* reference position, every other card on its reference position.
FirstDrop(c) ==
    IF c.id = "mince-pie-delivery" THEN At(65, 71) ELSE <<c.correctPosition>>

\* The drops the user makes: the top card of the sidebar onto the canvas, or
\* a movable card on the canvas onto one of the move positions.
DropInputs ==
    LET unplaced == {i \in 1..Len(components) : ~components[i].isPlaced}
        top      == {j \in unplaced : \A k \in unplaced : j <= k}
    IN  { <<components[i].id, FirstDrop(components[i])>> : i \in top }
        \cup
        { <<id, pos>> : id \in {m \in MoveIds :
                                  \E i \in 1..Len(components) :
                                      components[i].id = m /\ components[i].isPlaced},
                        pos \in MovePositions }

\* The badges of a render: INITIAL_BADGES, each with its earned flag.
Badges(cs, deps) ==
    [b \in {INITIAL_BADGES[i] : i \in 1..Len(INITIAL_BADGES)} |->
        checkBadgeEarned(b, cs, deps)]

MilestoneMessages_AnyRise(s) ==
    IF s > lastScore /\ s > 0
    THEN getScoreMilestoneCommentary(s)
    ELSE NoMessage

\* The milestone effect of the render in which the score is s.
MilestoneMessages(s) ==
    IF s > lastScore /\ s % 25 = 0 /\ s > 0
    THEN getScoreMilestoneCommentary(s)
    ELSE NoMessage

Rendered_Sticky(cs, deps, messages) ==
    LET same == cs = components /\ deps = dependencies
        s    == IF same THEN score ELSE calculateTotalScore(cs, deps)
        all  == messages \o MilestoneMessages(s)
    IN  /\ commentaryIdCounter + Len(all) <= MaxCommentaryIds
        /\ components' = cs
        /\ dependencies' = deps
        /\ UNCHANGED subScores
        /\ score' = s
        /\ badges' = [b \in DOMAIN badges |-> badges[b] \/ checkBadgeEarned(b, cs, deps)]
        /\ commentary' = Appended(commentary, commentaryIdCounter, all)
        /\ commentaryIdCounter' = commentaryIdCounter + Len(all)
        /\ lastScore' = s

\* The state after a handler has set the components to cs and the
\* dependencies to deps and added the messages: the render, whose useMemo
\* values are computed anew when components or dependencies changed, and
\* the milestone effect with setLastScore(score).
Rendered(cs, deps, messages) ==
    LET same == cs = components /\ deps = dependencies
        s    == IF same THEN score ELSE calculateTotalScore(cs, deps)
        all  == messages \o MilestoneMessages(s)
    IN  /\ commentaryIdCounter + Len(all) <= MaxCommentaryIds
        /\ components' = cs
        /\ dependencies' = deps
        /\ UNCHANGED subScores
        /\ score' = s
        /\ badges' = IF same THEN badges ELSE Badges(cs, deps)
        /\ commentary' = Appended(commentary, commentaryIdCounter, all)
        /\ commentaryIdCounter' = commentaryIdCounter + Len(all)
        /\ lastScore' = s

Init ==
    /\ components = INITIAL_COMPONENTS
    /\ dependencies = <<>>
    /\ subScores = ZeroScores
    /\ score = calculateTotalScore(INITIAL_COMPONENTS, <<>>)
    /\ badges = Badges(INITIAL_COMPONENTS, <<>>)
    /\ commentary = << getWelcomeCommentary(0) >>
    /\ commentaryIdCounter = 1
    /\ AppIdle
    /\ DropIdle
    /\ RouteIdle
    /\ currentCommentary = NoCommentary
    /\ isAnimating = FALSE
    /\ bezosClicks = 0
    /\ timer = NoTimer
    /\ cleanup = FALSE
    /\ effectDeps = NoDeps
    /\ pc = "app"

\* The certificate covers the page while it is shown.
PageReachable == pc = "app" /\ ~showCertificate

HandleComponentPlace_Reset ==
    /\ PageReachable
    /\ \E in \in DropInputs :
          LET i == FindComponent(components, in[1])
          IN  /\ i # 0
              /\ Rendered([components EXCEPT ![i].position = in[2],
                                             ![i].isPlaced = TRUE,
                                             ![i].classification = NULL],
                          dependencies,
                          getPlacementCommentary(components[i]))
    /\ UNCHANGED <<selectedComponentId, pendingDependencyFromId,
                   showCertificate, routeVars, dropVars, charVars, pc>>

\* handleDrop on the canvas: handleComponentPlace(componentId, position).
HandleComponentPlace ==
    /\ PageReachable
    /\ \E in \in DropInputs :
          LET i == FindComponent(components, in[1])
          IN  /\ i # 0
              /\ Rendered([components EXCEPT ![i].position = in[2],
                                             ![i].isPlaced = TRUE],
                          dependencies,
                          getPlacementCommentary(components[i]))
    /\ UNCHANGED <<selectedComponentId, pendingDependencyFromId,
                   showCertificate, routeVars, dropVars, charVars, pc>>

HandleClassificationChange_Sidebar ==
    /\ PageReachable
    /\ \E in \in ClassifyInputs :
          LET i == FindComponent(components, in[1])
          IN  /\ i # 0
              /\ Rendered([components EXCEPT ![i].classification = in[2]],
                          dependencies,
                          getClassificationCommentary(components[i], in[2]))
    /\ UNCHANGED <<selectedComponentId, pendingDependencyFromId,
                   showCertificate, routeVars, dropVars, charVars, pc>>

\* A classification button of a placed card:
\* handleClassificationChange(componentId, classification).
HandleClassificationChange ==
    /\ PageReachable
    /\ \E in \in ClassifyInputs :
          LET i == FindComponent(components, in[1])
          IN  /\ i # 0
              /\ components[i].isPlaced
              /\ Rendered([components EXCEPT ![i].classification = in[2]],
                          dependencies,
                          getClassificationCommentary(components[i], in[2]))
    /\ UNCHANGED <<selectedComponentId, pendingDependencyFromId,
                   showCertificate, routeVars, dropVars, charVars, pc>>

\* dependencies.some(...) of handleDependencyCreate: the pair is there, in
\* either direction.
DependencyExists_Directed(deps, fromId, toId) ==
    \E k \in 1..Len(deps) :
        deps[k].fromComponentId = fromId /\ deps[k].toComponentId = toId

DependencyExists(deps, fromId, toId) ==
    \E k \in 1..Len(deps) :
        \/ deps[k].fromComponentId = fromId /\ deps[k].toComponentId = toId
        \/ deps[k].fromComponentId = toId /\ deps[k].toComponentId = fromId

\* handleDependencyCreate(fromId, toId) at time now.
HandleDependencyCreate(fromId, toId, now) ==
    IF DependencyExists(dependencies, fromId, toId)
    THEN Rendered(components, dependencies, NoMessage)
    ELSE Rendered(components,
                  Append(dependencies, Dependency(now, fromId, toId)),
                  IF FindComponent(components, fromId) # 0
                     /\ FindComponent(components, toId) # 0
                  THEN getDependencyCommentary(fromId, toId)
                  ELSE NoMessage)

ComponentClick_NoSelfTest(componentId) ==
    IF pendingDependencyFromId # NULL
    THEN /\ \E now \in Timestamps :
               /\ \A k \in 1..Len(dependencies) : dependencies[k].id <= now
               /\ HandleDependencyCreate(pendingDependencyFromId, componentId, now)
         /\ pendingDependencyFromId' = NULL
         /\ selectedComponentId' = NULL
    ELSE /\ Rendered(components, dependencies, NoMessage)
         /\ selectedComponentId' =
               IF componentId = selectedComponentId THEN NULL ELSE componentId
         /\ UNCHANGED pendingDependencyFromId

\* handleComponentClick(componentId), with Date.now() read from times: a
\* reading is never below the readings before it.
ClickAt(componentId, times) ==
    IF pendingDependencyFromId # NULL
    THEN /\ IF pendingDependencyFromId # componentId
            THEN \E now \in times :
                    /\ \A k \in 1..Len(dependencies) : dependencies[k].id <= now
                    /\ HandleDependencyCreate(pendingDependencyFromId,
                                              componentId, now)
            ELSE Rendered(components, dependencies, NoMessage)
         /\ pendingDependencyFromId' = NULL
         /\ selectedComponentId' = NULL
    ELSE /\ Rendered(components, dependencies, NoMessage)
         /\ selectedComponentId' =
               IF componentId = selectedComponentId THEN NULL ELSE componentId
         /\ UNCHANGED pendingDependencyFromId

\* handleComponentClick(componentId).
ComponentClick(componentId) == ClickAt(componentId, Timestamps)

\* handleComponentClick of the canvas, on a card of the sidebar or the map.
HandleComponentClick ==
    /\ PageReachable
    /\ \E componentId \in ClickIds : ComponentClick(componentId)
    /\ UNCHANGED <<showCertificate, routeVars, dropVars, charVars, pc>>

HandleCanvasClick_SelectionOnly ==
    /\ PageReachable
    /\ Rendered(components, dependencies, NoMessage)
    /\ selectedComponentId' = NULL
    /\ UNCHANGED <<pendingDependencyFromId, showCertificate, routeVars, dropVars, charVars, pc>>

\* handleCanvasClick, on the canvas itself.
HandleCanvasClick ==
    /\ PageReachable
    /\ Rendered(components, dependencies, NoMessage)
    /\ selectedComponentId' = NULL
    /\ pendingDependencyFromId' = NULL
    /\ UNCHANGED <<showCertificate, routeVars, dropVars, charVars, pc>>

\* The Create Dependency button, disabled without a selection.
CreateDependencyButton ==
    /\ PageReachable
    /\ selectedComponentId # NULL
    /\ Rendered(components, dependencies, NoMessage)
    /\ pendingDependencyFromId' = selectedComponentId
    /\ UNCHANGED <<selectedComponentId, showCertificate, routeVars, dropVars, charVars, pc>>

allComponentsPlaced == \A i \in 1..Len(components) : components[i].isPlaced

HandleComplete_Early ==
    /\ PageReachable
    /\ Rendered(components, dependencies, getCompletionCommentary(score))
    /\ showCertificate' = TRUE
    /\ UNCHANGED <<selectedComponentId, pendingDependencyFromId, routeVars, dropVars,
                   charVars, pc>>

\* The complete button, rendered once every card is placed: handleComplete.
HandleComplete ==
    /\ PageReachable
    /\ allComponentsPlaced
    /\ Rendered(components, dependencies, getCompletionCommentary(score))
    /\ showCertificate' = TRUE
    /\ UNCHANGED <<selectedComponentId, pendingDependencyFromId, routeVars, dropVars,
                   charVars, pc>>

\* onClose of the certificate.
CloseCertificate ==
    /\ pc = "app"
    /\ showCertificate
    /\ Rendered(components, dependencies, NoMessage)
    /\ showCertificate' = FALSE
    /\ UNCHANGED <<selectedComponentId, pendingDependencyFromId, routeVars, dropVars,
                   charVars, pc>>

HandleRestart_KeepSelection ==
    /\ pc = "app"
    /\ showCertificate
    /\ commentaryIdCounter < MaxCommentaryIds
    /\ components' = INITIAL_COMPONENTS
    /\ dependencies' = <<>>
    /\ UNCHANGED subScores
    /\ score' = calculateTotalScore(INITIAL_COMPONENTS, <<>>)
    /\ badges' = Badges(INITIAL_COMPONENTS, <<>>)
    /\ commentary' = << getWelcomeCommentary(commentaryIdCounter) >>
    /\ commentaryIdCounter' = commentaryIdCounter + 1
    /\ pendingDependencyFromId' = NULL
    /\ showCertificate' = FALSE
    /\ lastScore' = calculateTotalScore(INITIAL_COMPONENTS, <<>>)
    /\ UNCHANGED <<selectedComponentId, routeVars, dropVars, charVars, pc>>

\* onRestart of the certificate: handleRestart.
HandleRestart ==
    /\ pc = "app"
    /\ showCertificate
    /\ commentaryIdCounter < MaxCommentaryIds
    /\ components' = INITIAL_COMPONENTS
    /\ dependencies' = <<>>
    /\ UNCHANGED subScores
    /\ score' = calculateTotalScore(INITIAL_COMPONENTS, <<>>)
    /\ badges' = Badges(INITIAL_COMPONENTS, <<>>)
    /\ commentary' = << getWelcomeCommentary(commentaryIdCounter) >>
    /\ commentaryIdCounter' = commentaryIdCounter + 1
    /\ selectedComponentId' = NULL
    /\ pendingDependencyFromId' = NULL
    /\ showCertificate' = FALSE
    /\ lastScore' = calculateTotalScore(INITIAL_COMPONENTS, <<>>)
    /\ UNCHANGED <<routeVars, dropVars, charVars, pc>>

\* onJeffBezosEasterEgg of the characters: handleJeffBezosEasterEgg.
HandleJeffBezosEasterEgg ==
    /\ PageReachable
    /\ Len(SelectSeq(commentary, LAMBDA c : c.type = "easter-egg" /\ c.text = "jeff-bezos"))
          < MaxEasterEggs
    /\ Rendered(components, dependencies, Message("jeff-bezos", "easter-egg"))
    /\ UNCHANGED <<selectedComponentId, pendingDependencyFromId,
                   showCertificate, routeVars, dropVars, charVars, pc>>

Next ==
    \/ HandleComponentPlace
    \/ HandleClassificationChange
    \/ HandleComponentClick
    \/ HandleCanvasClick
    \/ CreateDependencyButton
    \/ HandleComplete
    \/ CloseCertificate
    \/ HandleRestart
    \/ HandleJeffBezosEasterEgg

Spec == Init /\ [][Next]_vars

----------------------------------------------------------------------------
(* A drop on the canvas and the evolution stage of its x coordinate. *)

DropMargin == 5

\* x of handleDrop before the clamp, in percent of the canvas width: a drop
\* inside the canvas, or up to DropMargin outside of it.
DropXs == (0 - DropMargin)..(100 + DropMargin)

InitDrop ==
    /\ NoEvaluation
    /\ RouteIdle
    /\ BubbleIdle
    /\ AppIdle
    /\ dropX \in DropXs
    /\ clampedX = <<>>
    /\ stageKey = NULL
    /\ pc = "drop"

\* handleDrop: clampedX = Math.max(0, Math.min(100, x)).
HandleDrop ==
    /\ pc = "drop"
    /\ clampedX' = << Max(0, Min(100, dropX)) >>
    /\ pc' = "placed"
    /\ UNCHANGED <<evalVars, routeVars, bubbleVars, appVars, dropX, stageKey>>

\* getEvolutionStageFromX(position.x) of the placed card.
GetEvolutionStageFromX ==
    /\ pc = "placed"
    /\ stageKey' = getEvolutionStageFromX(clampedX[1])
    /\ pc' = "staged"
    /\ UNCHANGED <<evalVars, routeVars, bubbleVars, appVars, dropX, clampedX>>

NextDrop ==
    \/ HandleDrop
    \/ GetEvolutionStageFromX

SpecDrop == InitDrop /\ [][NextDrop]_vars

----------------------------------------------------------------------------
(* The creation of dependencies among three cards, with two readings of the
   clock. *)

MaxClock == 1

Clock == 0..MaxClock

LinkIds == {"foundational-ai", "cloud-compute", "network-comms"}

\* handleComponentClick on one of the three cards.
LinkClick ==
    /\ PageReachable
    /\ \E componentId \in LinkIds : ClickAt(componentId, Clock)
    /\ UNCHANGED <<showCertificate, routeVars, dropVars, charVars, pc>>

NextLinks ==
    \/ LinkClick
    \/ CreateDependencyButton
    \/ HandleCanvasClick

SpecLinks == Init /\ [][NextLinks]_vars

----------------------------------------------------------------------------
(* Properties of the evaluator. *)

Evaluated == pc # "input"

\* The numerator of q over q.d.
QNum(q) == q.w * q.d + q.n

Items == 1..Len(components)

PlacedItems == {i \in Items : components[i].isPlaced}

ClassifiedItems == {i \in Items : components[i].classification # NULL}

CorrectItems ==
    {i \in Items : components[i].classification = components[i].correctClassification}

RefPairs ==
    {{CORRECT_DEPENDENCIES[i][1], CORRECT_DEPENDENCIES[i][2]} :
        i \in 1..Len(CORRECT_DEPENDENCIES)}

\* The declared relationships whose unordered pair is a reference pair.
Matching ==
    {i \in 1..Len(dependencies) :
        {dependencies[i].fromComponentId, dependencies[i].toComponentId} \in RefPairs}

\* C1: whatever the items and the relationships (wrong and repeated pairs
\* included), the total score is an integer from 0 to 100.
C1_ScoreInRange == Evaluated => score \in 0..100

C1_Witness ==
    /\ pc = "done"
    /\ score > 0
    /\ PlacedItems # Items
    /\ \E i \in 1..Len(dependencies) : i \notin Matching
    /\ \E i, j \in 1..Len(dependencies) :
          /\ i # j
          /\ dependencies[i].fromComponentId = dependencies[j].toComponentId
          /\ dependencies[i].toComponentId = dependencies[j].fromComponentId

\* C2: with no items and no relationships the total score is 0 and each of
\* the four sub-scores, the completion bonus included, is 0.
C2_EmptyScoresZero ==
    (Evaluated /\ Len(components) = 0 /\ Len(dependencies) = 0)
        => score = 0 /\ subScores = ZeroScores

\* C3: the completion bonus is the full 15 exactly when every item is placed
\* and classified; otherwise it is ((placed/total + classified/total) / 2) * 15,
\* which is less than 15.
C3_CompletionBonus ==
    LET b        == subScores.completionBonus
        complete == PlacedItems = Items /\ ClassifiedItems = Items
    IN  Evaluated =>
          /\ (b = QInt(15)) <=> complete
          /\ ~complete =>
                /\ QNum(b) * 2 * Len(components) =
                      (Cardinality(PlacedItems) + Cardinality(ClassifiedItems)) * 15 * b.d
                /\ b.w < 15

\* 11 items, 5 placed and 5 classified: 75/11, about 6.8.
C3_Witness ==
    /\ pc = "done"
    /\ Len(components) = 11
    /\ Cardinality(PlacedItems) = 5
    /\ Cardinality(ClassifiedItems) = 5
    /\ subScores.completionBonus = [w |-> 6, n |-> 9, d |-> 11]

\* C4: the dependency sub-score is (matching / max(declared, 12)) * 25, a
\* relationship matching in either direction; none declared gives 0 and
\* exactly 3 declared, all matching, give 6.25.
C4_DependencyScore ==
    LET s        == subScores.dependencyScore
        declared == Len(dependencies)
    IN  Evaluated =>
          /\ QNum(s) * (IF declared > 12 THEN declared ELSE 12) =
                Cardinality(Matching) * 25 * s.d
          /\ declared = 0 => s = QInt(0)
          /\ (declared = 3 /\ Cardinality(Matching) = 3) => s = [w |-> 6, n |-> 1, d |-> 4]

C4_Witness ==
    /\ pc = "done"
    /\ Len(dependencies) = 3
    /\ Cardinality(Matching) = 3
    /\ \E i \in 1..3 : <<dependencies[i].toComponentId, dependencies[i].fromComponentId>>
                          \in {CORRECT_DEPENDENCIES[j] : j \in 1..Len(CORRECT_DEPENDENCIES)}
    /\ subScores.dependencyScore = [w |-> 6, n |-> 1, d |-> 4]

\* C5: the classification sub-score is (correctly classified / classified) * 30:
\* it is that of the classified items alone, 0 when nothing is classified, and
\* 30 for 2 correctly classified items beside 2 unclassified ones.
C5_ClassificationScore ==
    LET s == subScores.classificationScore
    IN  Evaluated =>
          /\ QNum(s) * Cardinality(ClassifiedItems) =
                Cardinality(CorrectItems) * 30 * s.d
          /\ s = calculateClassificationScore(SelectSeq(components, IsClassified))
          /\ ClassifiedItems = {} => s = QInt(0)
          /\ (Len(components) = 4 /\ Cardinality(ClassifiedItems) = 2
                /\ Cardinality(CorrectItems) = 2) => s = QInt(30)

C5_Witness ==
    /\ pc = "done"
    /\ Len(components) = 4
    /\ Cardinality(ClassifiedItems) = 2
    /\ Cardinality(CorrectItems) = 2
    /\ subScores.classificationScore = QInt(30)

\* The sum of the position sub-scores the placed items have on their own.
RECURSIVE SumAlone(_, _)
SumAlone(cs, i) ==
    IF i > Len(cs) THEN QInt(0)
    ELSE IF cs[i].isPlaced
         THEN QAdd(calculatePositionScore(<<cs[i]>>), SumAlone(cs, i + 1))
         ELSE SumAlone(cs, i + 1)

\* C6: the position sub-score is the average over the placed items of what
\* each scores on its own: it is that of the placed items alone, and exactly
\* 0 when nothing is placed.
C6_PositionScore ==
    LET s == subScores.positionScore
    IN  Evaluated =>
          /\ Q(QNum(s) * Cardinality(PlacedItems), s.d) = SumAlone(components, 1)
          /\ s = calculatePositionScore(SelectSeq(components, IsPlaced))
          /\ PlacedItems = {} => s = QInt(0)

\* Placed items at different distances beside unplaced ones.
C6_Witness ==
    /\ pc = "done"
    /\ Cardinality(PlacedItems) >= 2
    /\ PlacedItems # Items
    /\ \E i, j \in PlacedItems :
          calculatePositionScore(<<components[i]>>) # calculatePositionScore(<<components[j]>>)
    /\ subScores.positionScore.w > 0

\* The squared length of an offset.
Length2(o) == o[1] * o[1] + o[2] * o[2]

\* C7: for a single placed item the position sub-score does not increase with
\* the distance from the correct position; it is exactly 30 at distance 0 and
\* 0 at the diagonal of the 100 x 100 space (squared distance 20000) or beyond.
C7_PositionMonotone ==
    (Evaluated /\ Len(components) = 1 /\ components[1].isPlaced) =>
        LET c  == components[1]
            s  == subScores.positionScore
            d2 == (c.position[1].x - c.correctPosition.x) * (c.position[1].x - c.correctPosition.x)
                  + (c.position[1].y - c.correctPosition.y) * (c.position[1].y - c.correctPosition.y)
        IN  /\ d2 = 0 => s = QInt(30)
            /\ d2 >= 20000 => s = QInt(0)
            /\ \A i \in 1..Len(Offsets) :
                  LET far == calculatePositionScore(<<[c EXCEPT !.position = Moved(c, Offsets[i])]>>)
                  IN  /\ Length2(Offsets[i]) >= d2 => QLeq(far, s)
                      /\ Length2(Offsets[i]) <= d2 => QLeq(s, far)

\* A single item strictly between the two ends.
C7_Witness ==
    /\ pc = "done"
    /\ Len(components) = 1
    /\ components[1].isPlaced
    /\ subScores.positionScore # QInt(30)
    /\ subScores.positionScore # QInt(0)

C9_DependencyMaster ==
    pc = "done" => (badges["dependency-master"] = (Cardinality(Matching) >= 5))

\* Exactly 5 matching relationships, one of them reversed, beside wrong ones.
C9_Witness ==
    /\ pc = "done"
    /\ badges["dependency-master"]
    /\ Cardinality(Matching) = 5
    /\ Cardinality(Matching) < Len(dependencies)

GenesisItems == {i \in Items : components[i].correctEvolution = "genesis"}

\* C10: innovation-star is earned exactly when every genesis item has a
\* position with 0 <= x < 25 and is classified build: it is earned when there
\* is no genesis item and not earned when a genesis item is unplaced.
C10_InnovationStar ==
    pc = "done" =>
        /\ badges["innovation-star"] =
              (\A i \in GenesisItems :
                  /\ components[i].position # NoPosition
                  /\ components[i].position[1].x >= 0
                  /\ components[i].position[1].x < 25
                  /\ components[i].classification = "build")
        /\ GenesisItems = {} => badges["innovation-star"]
        /\ (\E i \in GenesisItems : components[i].position = NoPosition)
              => ~badges["innovation-star"]

\* Earned with both genesis items of the game on the map.
C10_Witness ==
    /\ pc = "done"
    /\ badges["innovation-star"]
    /\ Cardinality(GenesisItems) = 2

RepurposeItems == {i \in Items : components[i].correctClassification = "repurpose"}

\* C11: reindeer-efficiency is earned exactly when there is an item whose
\* correct classification is repurpose and the first such item is classified
\* repurpose; with no such item it is not earned.
C11_ReindeerEfficiency ==
    pc = "done" =>
        /\ badges["reindeer-efficiency"] =
              (\E i \in RepurposeItems :
                  /\ \A j \in RepurposeItems : i <= j
                  /\ components[i].classification = "repurpose")
        /\ RepurposeItems = {} => ~badges["reindeer-efficiency"]

C11_Witness ==
    /\ pc = "done"
    /\ badges["reindeer-efficiency"]
    /\ \E i \in Items : components[i].classification \notin {NULL, "repurpose"}

CloudItems == {i \in Items : components[i].id = "cloud-compute"}

OnCanvas(pos) == pos.x \in 0..100 /\ pos.y \in 0..100

\* C12: for positions on the 0..100 canvas, cloud-wisdom is earned exactly
\* when cloud-compute is there, is placed with x in the commodity range
\* 75..100 and is classified buy.
C12_CloudWisdom ==
    pc = "done" =>
        /\ CloudItems = {} => ~badges["cloud-wisdom"]
        /\ \A i \in CloudItems :
              /\ components[i].position = NoPosition => ~badges["cloud-wisdom"]
              /\ components[i].classification # "buy" => ~badges["cloud-wisdom"]
              /\ (components[i].position # NoPosition /\ OnCanvas(components[i].position[1])) =>
                    badges["cloud-wisdom"] =
                        (/\ components[i].position[1].x >= 75
                         /\ components[i].classification = "buy")

\* Earned at the right end of the canvas.
C12_Witness ==
    /\ pc = "done"
    /\ badges["cloud-wisdom"]
    /\ \E i \in CloudItems : components[i].position = At(100, 33)

----------------------------------------------------------------------------
(* Properties of the edge router. *)

Routed == pc \in {"routed", "drawn"}

Finite(p) == p.x.k = "fin" /\ p.y.k = "fin"

FAbs(a) == [a EXCEPT !.n = Abs(a.n)]

\* a <= b, for finite a and b
FLeq(a, b) == a.n * b.d <= b.n * a.d

\* p lies on the border of the CARD_WIDTH x CARD_HEIGHT box centered on c.
OnBorder(p, c) ==
    LET ex == FAbs(FSub(p.x, FInt(c.x)))
        ey == FAbs(FSub(p.y, FInt(c.y)))
    IN  /\ Finite(p)
        /\ \/ ex = FInt(95) /\ FLeq(ey, FInt(60))
           \/ ey = FInt(60) /\ FLeq(ex, FInt(95))

\* p lies on the straight line through a and b.
OnLine(p, a, b) ==
    /\ Finite(p)
    /\ FMul(FSub(p.x, FInt(b.x)), FInt(b.y - a.y)) =
       FMul(FSub(p.y, FInt(b.y)), FInt(b.x - a.x))

\* C15: for distinct centers the point computed before the clearance offset
\* lies on the target box's border and on the straight line through the two
\* centers, whichever of the four edges is selected.
C15_ExactIntersection ==
    (Routed /\ fromPoint # toPoint) =>
        /\ OnBorder(intersect, toPoint)
        /\ OnLine(intersect, fromPoint, toPoint)

\* p is on the line of an edge of the box centered on to whose outward
\* normal points to the side of the target center that from is on.
Facing(p, from, to) ==
    \/ p.x = FInt(to.x - 95) /\ from.x < to.x
    \/ p.x = FInt(to.x + 95) /\ from.x > to.x
    \/ p.y = FInt(to.y - 60) /\ from.y < to.y
    \/ p.y = FInt(to.y + 60) /\ from.y > to.y

\* C16: the edge is chosen by the angle of (dx, dy) against the box diagonal
\* 60 : 95 - x = to.x - 95 below it, x = to.x + 95 above its supplement,
\* otherwise y = to.y - 60 for a positive angle and y = to.y + 60 for the
\* rest - and for distinct centers the chosen edge is on the source's side
\* of the target center.
C16_EdgeSelection ==
    Routed =>
        LET dx == toPoint.x - fromPoint.x
            dy == toPoint.y - fromPoint.y
            shallow == 95 * Abs(dy) < 60 * Abs(dx)
        IN  /\ ((dx > 0 /\ shallow) \/ (dx = 0 /\ dy = 0)) =>
                  intersect.x = FInt(toPoint.x - 95)
            /\ (dx < 0 /\ shallow) => intersect.x = FInt(toPoint.x + 95)
            /\ (~shallow /\ dy > 0) => intersect.y = FInt(toPoint.y - 60)
            /\ (~shallow /\ dy < 0) => intersect.y = FInt(toPoint.y + 60)
            /\ fromPoint # toPoint => Facing(intersect, fromPoint, toPoint)

C16_Witness ==
    /\ pc = "drawn"
    /\ toPoint.y < fromPoint.y
    /\ toPoint.x # fromPoint.x
    /\ intersect.y = FInt(toPoint.y + 60)

\* C17: the returned point has finite coordinates for any two centers,
\* coincident centers included.
C17_FiniteResult == Routed => Finite(toPos)

\* The point p reflected about the midpoint of a and b.
Reflect(p, a, b) ==
    Point(FSub(FInt(a.x + b.x), p.x), FSub(FInt(a.y + b.y), p.y))

\* C18: for distinct centers, the destination of routing from -> to,
\* reflected about the midpoint, is the destination of routing to -> from.
C18_ReflectionSymmetry ==
    (Routed /\ fromPoint # toPoint) =>
        Reflect(toPos, fromPoint, toPoint) = getEdgeIntersection(toPoint, fromPoint)

\* p lies strictly outside the box centered on c.
OutsideBox(p, c) ==
    /\ Finite(p)
    /\ \/ ~FLeq(FAbs(FSub(p.x, FInt(c.x))), FInt(95))
       \/ ~FLeq(FAbs(FSub(p.y, FInt(c.y))), FInt(60))

\* C19: the destination is the intersection point moved 10 px from the
\* target back toward the source, it lies outside the target box, and the
\* drawn path starts at the unmodified source center.
C19_ClearanceOffset ==
    LET dx  == toPoint.x - fromPoint.x
        dy  == toPoint.y - fromPoint.y
        len == MathSqrt(dx * dx + dy * dy)
    IN  /\ Routed =>
              /\ Finite(toPos)
              /\ FMul(FSub(intersect.x, toPos.x), FInt(len)) = FInt(10 * dx)
              /\ FMul(FSub(intersect.y, toPos.y), FInt(len)) = FInt(10 * dy)
              /\ OutsideBox(toPos, toPoint)
        /\ pc = "drawn" => path.M = Point(FInt(fromPoint.x), FInt(fromPoint.y))

----------------------------------------------------------------------------
(* Properties of the commentary bubble. *)

\* React has nothing left to run: the effect has seen the current values.
Quiescent == effectDeps = Deps

Displayed == currentCommentary # NoCommentary /\ isAnimating

\* C20: a displayed bubble is hidden by its timer when nothing else
\* happens: once the effect has settled, a displayed bubble has its
\* auto-hide timer armed, with the delay of its type.
C20_AutoHideArmed ==
    (Quiescent /\ Displayed) => timer = timeout(currentCommentary[1])

----------------------------------------------------------------------------
(* Properties of the app. *)

InApp == pc = "app"

\* C13: in every app state each badge's earned flag is its predicate on the
\* current components and dependencies and the score is the total score of
\* the current components and dependencies.
C13_DerivedState ==
    InApp =>
        /\ \A b \in DOMAIN badges :
              badges[b] = checkBadgeEarned(b, components, dependencies)
        /\ score = calculateTotalScore(components, dependencies)

\* The card cloud-compute was classified buy right after its first drop,
\* on its reference position (85, 25): cloud-wisdom was earned then.  The
\* card has since been moved to x = 50 and the badge is not earned now.
C13_Witness ==
    /\ InApp
    /\ \E k \in 1..(Len(commentary) - 1) :
          /\ commentary[k].text = "cloud-shelf"
          /\ commentary[k + 1].text = "praise-buy"
          /\ \A j \in 1..(k - 1) : commentary[j].text # "cloud-shelf"
    /\ \E i \in 1..Len(components) :
          /\ components[i].id = "cloud-compute"
          /\ components[i].position = At(50, 50)
          /\ components[i].classification = "buy"
    /\ ~badges["cloud-wisdom"]
    /\ score > 0

\* The unordered pair of ids a dependency connects.
PairOf(d) == {d.fromComponentId, d.toComponentId}

NoDuplicatePairs ==
    \A j, k \in 1..Len(dependencies) :
        j # k => PairOf(dependencies[j]) # PairOf(dependencies[k])

\* A click that requests a dependency whose pair is already there.
DuplicateRequest ==
    /\ HandleComponentClick
    /\ pendingDependencyFromId # NULL
    /\ \A id \in ClickIds \ {pendingDependencyFromId} :
          DependencyExists(dependencies, pendingDependencyFromId, id)

\* C14: no two entries of the dependency list connect the same unordered
\* pair of components, and a request for a pair that is already there
\* leaves the dependency list and the commentary as they were.
C14_UniquePairs ==
    /\ [](InApp => NoDuplicatePairs)
    /\ [][DuplicateRequest => UNCHANGED <<dependencies, commentary>>]_vars

\* A dependency is there and its creation is armed again from its target:
\* the next click on the other card requests the same pair, reversed.
C14_Witness ==
    /\ InApp
    /\ Len(dependencies) = 1
    /\ pendingDependencyFromId = dependencies[1].toComponentId

\* A dependency from fromId to toId was added at the end of the list.
AddedDependency(fromId, toId) ==
    /\ Len(dependencies') = Len(dependencies) + 1
    /\ SubSeq(dependencies', 1, Len(dependencies)) = dependencies
    /\ dependencies'[Len(dependencies')].fromComponentId = fromId
    /\ dependencies'[Len(dependencies')].toComponentId = toId

\* The click on card b while dependency creation is armed.
ArmedClick(b) ==
    /\ pendingDependencyFromId # NULL
    /\ HandleComponentClick
    /\ ComponentClick(b)

NoSelfDependency ==
    \A k \in 1..Len(dependencies) :
        dependencies[k].fromComponentId # dependencies[k].toComponentId

\* C21: with creation armed for card A, a click on another card B adds
\* exactly one dependency from A to B unless the pair is there already, a
\* click on A adds none, either click clears the pending source and the
\* selection, and no dependency connects a card to itself.
C21_ArmedClick ==
    /\ [](InApp => NoSelfDependency)
    /\ [][\A b \in ClickIds :
             ArmedClick(b) =>
                 /\ pendingDependencyFromId' = NULL
                 /\ selectedComponentId' = NULL
                 /\ IF b = pendingDependencyFromId
                       \/ \E k \in 1..Len(dependencies) :
                             PairOf(dependencies[k]) = {pendingDependencyFromId, b}
                    THEN dependencies' = dependencies
                    ELSE AddedDependency(pendingDependencyFromId, b)]_vars

\* A dependency has been created by an armed click, which cleared the
\* pending source and the selection.
C21_Witness ==
    /\ InApp
    /\ Len(dependencies) = 1
    /\ dependencies[1].fromComponentId = "network-comms"
    /\ dependencies[1].toComponentId = "cloud-compute"
    /\ pendingDependencyFromId = NULL
    /\ selectedComponentId = NULL
    /\ ~showCertificate

\* C22: whenever dependency creation is armed, its source is the selected
\* card.
C22_PendingIsSelected ==
    InApp => (pendingDependencyFromId # NULL =>
                 selectedComponentId = pendingDependencyFromId)

C22_Witness ==
    /\ InApp
    /\ pendingDependencyFromId = "cloud-compute"
    /\ selectedComponentId = "cloud-compute"
    /\ Len(dependencies) = 1

Classified == {i \in 1..Len(components) : components[i].classification # NULL}

Placed == {i \in 1..Len(components) : components[i].isPlaced}

\* C23: every card with a classification is placed, so the classified
\* cards are never more than the placed ones.
C23_ClassifiedIsPlaced ==
    InApp =>
        /\ \A i \in 1..Len(components) :
              components[i].classification # NULL => components[i].isPlaced
        /\ Cardinality(Classified) <= Cardinality(Placed)

\* One card is classified and placed while others are still in the sidebar.
C23_Witness ==
    /\ InApp
    /\ Cardinality(Classified) = 1
    /\ Cardinality(Placed) = 7
    /\ \E i \in Classified : components[i].position = <<components[i].correctPosition>>

\* Card i was placed and nothing else of the components changed.
PlacedOnly(i) ==
    /\ components'[i].isPlaced
    /\ components'[i].position # NoPosition
    /\ components' = [components EXCEPT ![i].position = components'[i].position,
                                        ![i].isPlaced = TRUE]

\* C24: a card is placed exactly when it has a position, and a drop changes
\* only the position and the placed flag of the dropped card: the
\* classifications, the other cards and the dependencies stay.
C24_PlacementOnly ==
    /\ [](InApp => \A i \in 1..Len(components) :
                      components[i].isPlaced <=> components[i].position # NoPosition)
    /\ [][\/ /\ \E i \in 1..Len(components) : PlacedOnly(i)
             /\ dependencies' = dependencies
          \/ ~HandleComponentPlace]_vars

\* A classified card was placed again, on another position, while a
\* dependency was in the list.
C24_Witness ==
    /\ InApp
    /\ \E i \in 1..Len(components) :
          /\ components[i].classification = "buy"
          /\ components[i].isPlaced
          /\ components[i].position = At(50, 50)
    /\ Len(dependencies) = 1
    /\ Cardinality(Placed) = 8

\* C26: the certificate is shown only when every card is placed.
C26_CertificateWhenAllPlaced ==
    InApp => (showCertificate => \A i \in 1..Len(components) : components[i].isPlaced)

C26_Witness ==
    /\ InApp
    /\ showCertificate
    /\ Cardinality(Placed) = Len(INITIAL_COMPONENTS)

IsMilestone(c) ==
    c.text \in {"milestone-25", "milestone-50", "milestone-75", "milestone-90"}

\* The entries of the commentary a step added: the new tail, or the whole
\* list when the step replaced it.
NewEntries ==
    IF Len(commentary') >= Len(commentary)
       /\ SubSeq(commentary', 1, Len(commentary)) = commentary
    THEN SubSeq(commentary', Len(commentary) + 1, Len(commentary'))
    ELSE commentary'

\* C27: a step appends exactly one milestone commentary when its score is
\* above lastScore and a positive multiple of 25, and none otherwise; in
\* every settled state lastScore is the score.
C27_MilestoneOnce ==
    /\ [](InApp => lastScore = score)
    /\ [][InApp =>
             Len(SelectSeq(NewEntries, IsMilestone)) =
                 IF score' > lastScore /\ score' % 25 = 0 /\ score' > 0
                 THEN 1 ELSE 0]_vars

\* The score has just risen to a multiple of 25 and the milestone entry is
\* the last of the commentary, once.
C27_Witness ==
    /\ InApp
    /\ score > 0
    /\ score % 25 = 0
    /\ lastScore = score
    /\ IsMilestone(commentary[Len(commentary)])
    /\ Len(SelectSeq(commentary, IsMilestone)) = 1

\* C28: a restart gives the initial state: the eleven cards unplaced with
\* no position and no classification, no dependencies, the commentary one
\* welcome entry, nothing selected, nothing pending, the certificate
\* hidden and lastScore 0.
C28_RestartIsInitial ==
    [][HandleRestart =>
          /\ Len(components') = 11
          /\ \A i \in 1..Len(components') :
                /\ ~components'[i].isPlaced
                /\ components'[i].position = NoPosition
                /\ components'[i].classification = NULL
          /\ components' = INITIAL_COMPONENTS
          /\ dependencies' = <<>>
          /\ Len(commentary') = 1
          /\ commentary'[1].text = "welcome"
          /\ selectedComponentId' = NULL
          /\ pendingDependencyFromId' = NULL
          /\ ~showCertificate'
          /\ lastScore' = 0]_vars

\* The state after a restart: the initial state, with a welcome entry made
\* later than the first one.
C28_Witness ==
    /\ InApp
    /\ components = INITIAL_COMPONENTS
    /\ dependencies = <<>>
    /\ Len(commentary) = 1
    /\ commentary[1].text = "welcome"
    /\ commentary[1].id > 0
    /\ lastScore = 0
    /\ ~showCertificate

\* C25: no two entries of the dependency list have the same id.
C25_UniqueIds ==
    InApp =>
        \A j, k \in 1..Len(dependencies) :
            j # k => dependencies[j].id # dependencies[k].id

----------------------------------------------------------------------------
(* Properties of the evolution stages. *)

\* The stages whose half-open range [lo, hi) contains x.
StagesOf(x) ==
    {i \in 1..Len(EVOLUTION_STAGES) :
        EVOLUTION_STAGES[i].xRange[1] <= x /\ x < EVOLUTION_STAGES[i].xRange[2]}

\* C29: every x in [0, 100) lies in the range [lo, hi) of exactly one stage
\* and getEvolutionStageFromX gives that stage, so that 25, 50 and 75 belong
\* to custom, product and commodity; the clamped maximum 100 gives
\* commodity.
C29_StageOfX ==
    /\ \A x \in 0..99 : Cardinality(StagesOf(x)) = 1
    /\ pc = "staged" =>
          /\ clampedX[1] \in 0..100
          /\ clampedX[1] < 100 =>
                \A i \in StagesOf(clampedX[1]) : stageKey = EVOLUTION_STAGES[i].key
          /\ clampedX[1] = 25 => stageKey = "custom"
          /\ clampedX[1] = 50 => stageKey = "product"
          /\ clampedX[1] = 75 => stageKey = "commodity"
          /\ clampedX[1] = 100 => stageKey = "commodity"

\* A drop right of the canvas was clamped to 100 and staged as commodity.
C29_Witness ==
    /\ pc = "staged"
    /\ dropX > 100
    /\ clampedX = <<100>>
    /\ stageKey = "commodity"

----------------------------------------------------------------------------
(* Properties of the rendered dependency. *)

\* The id names a component of the list that is placed.
NamesPlaced(id) ==
    \E i \in 1..Len(components) : components[i].id = id /\ components[i].isPlaced

BothPlaced ==
    /\ NamesPlaced(dependencies[1].fromComponentId)
    /\ NamesPlaced(dependencies[1].toComponentId)

\* C30: the router is called and a connector drawn only for a dependency
\* whose two ids each name a placed component; any other dependency is
\* skipped by the renderer, stays in the list and is scored by the
\* evaluator as before.
C30_SkippedUnplaced ==
    /\ pc \in {"centers", "routed", "drawn"} => BothPlaced
    /\ pc = "skipped" =>
          /\ ~BothPlaced
          /\ toPos = NoPoint
          /\ path = NoPath
          /\ Len(dependencies) = 1
          /\ subScores.dependencyScore = calculateDependencyScore(dependencies)
          /\ IsCorrectDependency(dependencies[1]) =>
                subScores.dependencyScore = Q(WEIGHTS.dependencyLogic,
                                              Len(CORRECT_DEPENDENCIES))

\* The dependency between the two cards was skipped with one of them in the
\* sidebar, and scores as a correct one.
C30_Witness ==
    /\ pc = "skipped"
    /\ dependencies[1].fromComponentId = "cloud-compute"
    /\ dependencies[1].toComponentId = "network-comms"
    /\ NamesPlaced("cloud-compute")
    /\ ~NamesPlaced("network-comms")
    /\ subScores.dependencyScore # QInt(0)
====
